---- MODULE Spec2Model ----
(***************************************************************************)
(* Model of the desktop client in src/main.py: the authentication dialog   *)
(* (AuthDialog), the background upload thread (UploadWorker), the chart    *)
(* canvas (MatplotlibCanvas) and the main window (MainWindow).             *)
(*                                                                         *)
(* The interactive thread runs one handler at a time.  A handler that      *)
(* opens a modal dialog (QDialog.exec_, QFileDialog.getOpenFileName,       *)
(* QMessageBox.warning/critical) enters a nested event loop: the handler   *)
(* is suspended there, only the top-most modal window takes user input,    *)
(* and queued signals of worker threads are still delivered.  The variable *)
(* modal is the stack of open modal windows, i.e. the suspended handlers.  *)
(*                                                                         *)
(* Texts that are not Latin-1 (emoji, the long dash) are left out of the   *)
(* string literals.  Averages are integers counting thousandths.           *)
(***************************************************************************)
EXTENDS Integers, Sequences, FiniteSets, TLC

VARIABLES
    token,              \* MainWindow.token
    worker,             \* MainWindow.worker: an index of threads, 0 for None
    threads,            \* the UploadWorker objects that exist, oldest first
    events,             \* queued signal deliveries posted to the main thread
    modal,              \* stack of open modal windows, top last
    upload_btn,         \* MainWindow.upload_btn: enabled flag and text
    file_label,         \* MainWindow.file_label: text and colour
    total_label,        \* MainWindow.total_label.value_label text
    flowrate_label,     \* MainWindow.flowrate_label.value_label text
    pressure_label,     \* MainWindow.pressure_label.value_label text
    temperature_label,  \* MainWindow.temperature_label.value_label text
    canvas,             \* MainWindow.canvas: what the axes show
    statusBar,          \* message of the status bar
    login               \* the last call of AuthDialog.authenticate

vars == <<token, worker, threads, events, modal, upload_btn, file_label,
          total_label, flowrate_label, pressure_label, temperature_label,
          canvas, statusBar, login>>

display == <<total_label, flowrate_label, pressure_label, temperature_label, canvas>>

(***************************************************************************)
(* Bounds of the model.                                                    *)
(***************************************************************************)
\* number of UploadWorker objects that can exist at the same time
MaxWorkers == 2
\* number of entries of a type distribution given to the canvas by itself
MaxBars == 4

(***************************************************************************)
(* Python and JSON values.  A value is a record [k, v]: k is its type.     *)
(***************************************************************************)
None == [k |-> "none", v |-> ""]
Str(s) == [k |-> "str", v |-> s]
\* a JSON object with its Python repr, as str() prints it
Obj(repr) == [k |-> "dict", v |-> repr]

\* truth value of a Python object in `if x` / `not x`
Truthy(x) == /\ x.k # "none"
             /\ ~(x.k = "str" /\ x.v = "")

\* dict.get(key, default)
Get(d, key, default) == IF key \in DOMAIN d THEN d[key] ELSE default

\* the dict d restricted to the keys in ks
Only(d, ks) == [key \in (DOMAIN d) \cap ks |-> d[key]]

\* a text typed into a QLineEdit: a sequence of characters
EmptyText == << >>
Blank(s) == \A i \in 1..Len(s) : s[i] = " "
\* truth value of a Python str
NonEmpty(s) == Len(s) > 0

(***************************************************************************)
(* HTTP responses.  A body has its raw text and what response.json()       *)
(* makes of it: "invalid" (json() raises), "list" or "dict".               *)
(***************************************************************************)
Body(text, kind, value) == [text |-> text, kind |-> kind, value |-> value]
TextBody == Body("<html>Server Error</html>", "invalid", << >>)
ListBody == Body("[]", "list", << >>)
DictBody(text, d) == Body(text, "dict", d)

\* the outcome of requests.post: a response, or the exception it raised
Response(status, body) == [exc |-> "none", status |-> status, body |-> body]
Raised(exc) == [exc |-> exc, status |-> 0, body |-> Body("", "invalid", << >>)]

(***************************************************************************)
(* Modal windows.  A frame of the stack modal is a record: k is the kind   *)
(* of window ("auth", "file" or "msg"), ctx the handler that opened it and *)
(* is suspended in it; a message box has its icon, title and text, the     *)
(* text being a fixed part (pre) and an interpolated part (arg).           *)
(***************************************************************************)
Frame(k, ctx, icon, title, pre, arg) ==
    [k |-> k, ctx |-> ctx, icon |-> icon, title |-> title, pre |-> pre, arg |-> arg]
NoBox == Frame("none", "", "", "", "", "")
AuthFrame(ctx) == Frame("auth", ctx, "", "API Authentication", "", "")
FileFrame == Frame("file", "upload", "", "Select CSV File", "", "")
Warning(title, pre, arg) == Frame("msg", "", "warning", title, pre, arg)
Critical(title, pre, arg) == Frame("msg", "", "critical", title, pre, arg)

Top == modal[Len(modal)]
Pop(stack) == SubSeq(stack, 1, Len(stack) - 1)
Push(stack, frame) == Append(stack, frame)

(***************************************************************************)
(* AuthDialog                                                              *)
(***************************************************************************)
\* what the user can type into username_input and password_input
CredTexts == { << >>, <<" ">>, <<"a">> }

\* the token values the login endpoint can put into its answer
Tokens == { "abc123", "xyz789" }

\* the answers of POST {API_BASE_URL}/login/
LoginReplies ==
    { Response(200, DictBody("{token}", [token |-> Str(t)])) : t \in Tokens \cup {""} }
    \cup { Response(201, DictBody("{token}", [token |-> Str("abc123")])),
           Response(200, DictBody("{}", Only([token |-> None], {}))),
           Response(200, TextBody), Response(200, ListBody),
           Response(400, DictBody("{non_field_errors}", [non_field_errors |-> Str("Unable to log in")])),
           Response(401, TextBody), Response(500, TextBody),
           Raised("ConnectionError") }

\* AuthDialog.authenticate: the value it returns, whether it posted the
\* credentials to the login endpoint, and the message box it showed
AuthResult(ret, sent, box) == [ret |-> ret, sent |-> sent, box |-> box]

\* authenticate looking at the class of the status, not at the status
authenticate_classes(username, password, reply) ==
    IF ~NonEmpty(username) \/ ~NonEmpty(password)
    THEN AuthResult(None, FALSE, Warning("Error", "Please enter username and password", ""))
    ELSE IF reply.exc # "none"
    THEN AuthResult(None, TRUE,
            Critical("Connection Error", "Could not connect to server: ", reply.exc))
    ELSE IF reply.status \div 100 = 2
    THEN IF reply.body.kind = "invalid"
         THEN AuthResult(None, TRUE,
                 Critical("Connection Error", "Could not connect to server: ", "JSONDecodeError"))
         ELSE IF reply.body.kind = "list"
         THEN AuthResult(None, TRUE,
                 Critical("Connection Error", "Could not connect to server: ", "AttributeError"))
         ELSE AuthResult(Get(reply.body.value, "token", None), TRUE, NoBox)
    ELSE IF reply.status \div 100 = 4
    THEN AuthResult(None, TRUE, Warning("Login Failed", "Invalid credentials", ""))
    ELSE AuthResult(None, TRUE, Warning("Login Failed", "Error: ", reply.body.text))

authenticate(username, password, reply) ==
    IF ~NonEmpty(username) \/ ~NonEmpty(password)
    THEN AuthResult(None, FALSE, Warning("Error", "Please enter username and password", ""))
    ELSE IF reply.exc # "none"
    THEN AuthResult(None, TRUE,
            Critical("Connection Error", "Could not connect to server: ", reply.exc))
    ELSE IF reply.status = 200
    THEN \* response.json().get('token')
         IF reply.body.kind = "invalid"
         THEN AuthResult(None, TRUE,
                 Critical("Connection Error", "Could not connect to server: ", "JSONDecodeError"))
         ELSE IF reply.body.kind = "list"
         THEN AuthResult(None, TRUE,
                 Critical("Connection Error", "Could not connect to server: ", "AttributeError"))
         ELSE AuthResult(Get(reply.body.value, "token", None), TRUE, NoBox)
    ELSE IF reply.status = 400
    THEN AuthResult(None, TRUE, Warning("Login Failed", "Invalid credentials", ""))
    ELSE AuthResult(None, TRUE, Warning("Login Failed", "Error: ", reply.body.text))

\* the record kept of a call of authenticate
LoginCall(username, password, reply, result) ==
    [called |-> TRUE, username |-> username, password |-> password,
     reply |-> IF result.sent THEN reply ELSE Raised("none"), result |-> result]
NoLogin ==
    [called |-> FALSE, username |-> EmptyText, password |-> EmptyText,
     reply |-> Raised("none"), result |-> AuthResult(None, FALSE, NoBox)]

\* upload_file without its second look at the token
ResumeUpload_unchecked(stack, tok) == Push(stack, FileFrame)

\* MainWindow.upload_file after show_auth_dialog returned: it gives up
\* without a token and opens the file chooser with one
ResumeUpload(stack, tok) ==
    IF ~Truthy(tok) THEN stack ELSE Push(stack, FileFrame)

\* the handler suspended in a window of context ctx goes on when it closes
Resume(ctx, stack, tok) ==
    IF ctx = "upload" THEN ResumeUpload(stack, tok) ELSE stack

\* MainWindow.show_auth_dialog after dialog.exec_() returned Accepted,
\* dialog.token being dialogToken
AuthAccepted(ctx, dialogToken) ==
    /\ token' = dialogToken
    /\ IF Truthy(dialogToken)
       THEN /\ statusBar' = "Authenticated successfully"
            /\ modal' = Resume(ctx, Pop(modal), dialogToken)
       ELSE /\ statusBar' = statusBar
            /\ modal' = Push(Pop(modal),
                   [Warning("Warning", "Credentials are required to upload files.", "")
                       EXCEPT !.ctx = ctx])

\* the OK button of the dialog: AuthDialog.handle_login
HandleLogin(username, password, reply) ==
    /\ modal # << >>
    /\ Top.k = "auth"
    /\ LET result == authenticate(username, password, reply)
       IN /\ login' = LoginCall(username, password, reply, result)
          /\ IF Truthy(result.ret)
             THEN AuthAccepted(Top.ctx, result.ret)
             ELSE /\ modal' = IF result.box = NoBox THEN modal ELSE Push(modal, result.box)
                  /\ UNCHANGED <<token, statusBar>>
    /\ UNCHANGED <<worker, threads, events, upload_btn, file_label, display>>

\* a cancelled dialog that makes the main window forget its token
RejectLogin_forgets ==
    /\ modal # << >>
    /\ Top.k = "auth"
    /\ token' = None
    /\ modal' = Resume(Top.ctx, Pop(modal), None)
    /\ UNCHANGED <<worker, threads, events, upload_btn, file_label,
                   display, statusBar, login>>

\* the Cancel button of the dialog: QDialog.reject, exec_() returns Rejected
RejectLogin ==
    /\ modal # << >>
    /\ Top.k = "auth"
    /\ modal' = Resume(Top.ctx, Pop(modal), token)
    /\ UNCHANGED <<token, worker, threads, events, upload_btn, file_label,
                   display, statusBar, login>>

\* the user closes a message box
CloseMessage ==
    /\ modal # << >>
    /\ Top.k = "msg"
    /\ modal' = Resume(Top.ctx, Pop(modal), token)
    /\ UNCHANGED <<token, worker, threads, events, upload_btn, file_label,
                   display, statusBar, login>>

\* the "Change Credentials" button: MainWindow.show_auth_dialog
ChangeCredentials ==
    /\ modal = << >>
    /\ modal' = <<AuthFrame("change")>>
    /\ UNCHANGED <<token, worker, threads, events, upload_btn, file_label,
                   display, statusBar, login>>

(***************************************************************************)
(* UploadWorker                                                            *)
(***************************************************************************)
\* the signals finished(dict) and error(str); the text of an error is a
\* fixed part (pre) and an interpolated part (arg)
NoMsg == [pre |-> "", arg |-> ""]
Finished(data) == [sig |-> "finished", data |-> data, msg |-> NoMsg]
Error(pre, arg) == [sig |-> "error", data |-> << >>, msg |-> [pre |-> pre, arg |-> arg]]

\* the classes of requests.exceptions the except clauses of run name:
\* ConnectTimeout derives from both ConnectionError and Timeout
IsConnectionError(exc) == exc \in {"ConnectionError", "ConnectTimeout"}
IsTimeout(exc) == exc \in {"ConnectTimeout", "ReadTimeout"}

\* the answers of the upload endpoint used here
StatsB ==
    [total_count |-> 3, avg_flowrate |-> 12500, avg_pressure |-> 1200,
     avg_temperature |-> 25000,
     type_distribution |-> << [type |-> "Pump", count |-> 2],
                              [type |-> "Valve", count |-> 1] >>]
StatsC ==
    [total_count |-> 2, avg_flowrate |-> 1234, avg_pressure |-> 1236,
     avg_temperature |-> -5004,
     type_distribution |-> << [type |-> "Pump", count |-> 1],
                              [type |-> "Pump", count |-> 1] >>]
DataB == [file_id |-> "f1", summary_statistics |-> StatsB]
DataC == [file_id |-> "f2", summary_statistics |-> StatsC]
\* answers with fields missing
DataD == [summary_statistics |-> Only(StatsC, {"avg_flowrate", "type_distribution"})]

UploadBodies ==
    { TextBody, ListBody,
      DictBody("{}", Only(DataB, {})),
      DictBody("{error: str}", [error |-> Str("Invalid file format")]),
      DictBody("{error: dict}", [error |-> Obj("{'file': ['No file was submitted.']}")]),
      DictBody("{B}", DataB), DictBody("{C}", DataC),
      DictBody("{D}", DataD) }

UploadStatuses == {200, 201, 401, 500}

UploadReplies ==
    { Response(status, body) : status \in UploadStatuses, body \in UploadBodies }
    \cup { Raised(exc) : exc \in {"ConnectionError", "ConnectTimeout", "ReadTimeout",
                                  "ChunkedEncodingError"} }

\* what a run meets: whether open(file_path, 'rb') succeeds, and the outcome
\* of requests.post
RunInput(file_ok, reply) == [file_ok |-> file_ok, reply |-> reply]
RunInputs ==
    { RunInput(FALSE, Raised("none")) }
    \cup { RunInput(TRUE, reply) : reply \in UploadReplies }

\* the try block of UploadWorker.run: the signals it emits, the exception it
\* ends with ("none" when it ends normally), whether the request was sent
Tried(emits, exc, sent) == [emits |-> emits, exc |-> exc, sent |-> sent]

TryBlock(file_ok, reply) ==
    IF ~file_ok THEN Tried(<< >>, "FileNotFoundError", FALSE)
    ELSE IF reply.exc # "none" THEN Tried(<< >>, reply.exc, TRUE)
    ELSE IF reply.status = 201
    THEN \* self.finished.emit(response.json()): the signal takes a dict
         IF reply.body.kind = "invalid" THEN Tried(<< >>, "JSONDecodeError", TRUE)
         ELSE IF reply.body.kind = "list" THEN Tried(<< >>, "TypeError", TRUE)
         ELSE Tried(<<Finished(reply.body.value)>>, "none", TRUE)
    ELSE IF reply.status = 401
    THEN Tried(<<Error("Authentication failed. Please check your credentials.", "")>>,
               "none", TRUE)
    ELSE \* response.json().get('error', 'Unknown error occurred')
         IF reply.body.kind = "invalid" THEN Tried(<< >>, "JSONDecodeError", TRUE)
         ELSE IF reply.body.kind = "list" THEN Tried(<< >>, "AttributeError", TRUE)
         ELSE LET error_msg == Get(reply.body.value, "error", Str("Unknown error occurred"))
              IN Tried(<<Error("API Error: ", error_msg.v)>>, "none", TRUE)

\* the except clauses without the last one
ExceptClauses_two(exc) ==
    IF exc = "none" THEN << >>
    ELSE IF IsConnectionError(exc)
    THEN <<Error("Connection failed. Is the Django server running?", "")>>
    ELSE IF IsTimeout(exc)
    THEN <<Error("Request timed out. Please try again.", "")>>
    ELSE << >>

\* the except clauses of UploadWorker.run, in their order
ExceptClauses(exc) ==
    IF exc = "none" THEN << >>
    ELSE IF IsConnectionError(exc)
    THEN <<Error("Connection failed. Is the Django server running?", "")>>
    ELSE IF IsTimeout(exc)
    THEN <<Error("Request timed out. Please try again.", "")>>
    ELSE <<Error("Error: ", exc)>>

\* UploadWorker.run: the signals emitted, in order
run(file_ok, reply) ==
    LET tried == TryBlock(file_ok, reply)
    IN tried.emits \o ExceptClauses(tried.exc)

\* the request run sends: the base name of the file and the header
NoRequest == [sent |-> FALSE, filename |-> "", authorization |-> ""]
Basename(file_path) == file_path[Len(file_path)]
\* the request with the token the main window holds when it is sent
Request_live(file_path, tok) ==
    [sent |-> TRUE, filename |-> Basename(file_path), authorization |-> "Token " \o token.v]

Request(file_path, tok) ==
    [sent |-> TRUE, filename |-> Basename(file_path), authorization |-> "Token " \o tok.v]

\* an UploadWorker object: st is "started" until run has emitted its
\* signals, "emitted" (or "detached", see Orphan) until run has returned,
\* then "finished".  While run
\* has not returned the record has what run met (io), the request it sent
\* and the signals it emitted; emitted and observed are the names of the
\* signals the thread emitted and of those the main window's slots took.
NoIO == [file_ok |-> FALSE, reply |-> Raised("none")]
NewWorker ==
    [st |-> "started", file_path |-> << >>, token |-> None, io |-> NoIO,
     request |-> NoRequest, signals |-> << >>, emitted |-> << >>, observed |-> << >>]
UploadWorker(file_path, tok) ==
    [NewWorker EXCEPT !.file_path = file_path, !.token = tok]

Slots == 1..MaxWorkers
Pending(evs, w) == \E i \in 1..Len(evs) : evs[i].w = w

\* A worker object that MainWindow.worker no longer refers to and that has
\* no signal queued goes away once its thread has ended; until then only its
\* thread is left, which has nothing to do but to return from run.
Orphan == [NewWorker EXCEPT !.st = "detached"]

\* the worker objects left of ths, cur being MainWindow.worker and evs the
\* queued signals, with cur and evs renumbered to the objects left
Collect(ths, cur, evs) ==
    LET kept == { w \in DOMAIN ths : w = cur \/ Pending(evs, w) \/ ths[w].st # "finished" }
        NewIndex(w) == Cardinality({ v \in kept : v <= w })
        OldIndex(k) == CHOOSE w \in kept : NewIndex(w) = k
    IN [threads |-> [k \in 1..Cardinality(kept) |->
                        LET w == OldIndex(k)
                        IN IF w # cur /\ ~Pending(evs, w) /\ ths[w].st = "emitted"
                           THEN Orphan ELSE ths[w]],
        worker |-> IF cur = 0 THEN 0 ELSE NewIndex(cur),
        events |-> [i \in 1..Len(evs) |-> [evs[i] EXCEPT !.w = NewIndex(@)]]]

\* the thread of worker w runs up to the end of its emits
WorkerRun(w, io) ==
    /\ w \in DOMAIN threads
    /\ threads[w].st = "started"
    /\ LET self == threads[w]
           emits == run(io.file_ok, io.reply)
       IN /\ threads' = [threads EXCEPT ![w] =
                 [self EXCEPT !.st = "emitted", !.io = io, !.signals = emits,
                     !.emitted = [i \in 1..Len(emits) |-> emits[i].sig],
                     !.request = IF TryBlock(io.file_ok, io.reply).sent
                                 THEN Request(self.file_path, self.token)
                                 ELSE NoRequest]]
          /\ events' = events \o [i \in 1..Len(emits) |->
                 [w |-> w, sig |-> emits[i].sig, data |-> emits[i].data, msg |-> emits[i].msg]]
    /\ UNCHANGED <<token, worker, modal, upload_btn, file_label, display, statusBar, login>>

\* run returns and the thread of worker w ends
WorkerExit(w) ==
    /\ w \in DOMAIN threads
    /\ threads[w].st \in {"emitted", "detached"}
    /\ LET left == Collect([threads EXCEPT ![w] =
                       [@ EXCEPT !.st = "finished", !.io = NoIO, !.request = NoRequest,
                                 !.signals = << >>]],
                           worker, events)
       IN /\ threads' = left.threads
          /\ worker' = left.worker
          /\ events' = left.events
    /\ UNCHANGED <<token, modal, upload_btn, file_label, display, statusBar, login>>

(***************************************************************************)
(* MatplotlibCanvas                                                        *)
(***************************************************************************)
\* the colour palette of plot_type_distribution
colors == <<"#63b3ed", "#68d391", "#ed8936", "#9f7aea", "#f56565", "#48bb78", "#f6ad55">>

\* What the axes of the canvas hold: the texts drawn into them, the title,
\* the bar patches in the order they were added, the labels given to
\* set_xticklabels, and the units of the x axis: the category names the axis
\* has met, the name at index j standing at position j - 1.
Chart(texts, title, bars, xticklabels, units) ==
    [texts |-> texts, title |-> title, bars |-> bars, xticklabels |-> xticklabels,
     units |-> units]

\* MatplotlibCanvas.__init__: the axes of add_subplot, with nothing in them
NewAxes == Chart(<< >>, "", << >>, << >>, << >>)

\* Axes.clear() that leaves the artists where they are
axes_clear_keep(axes) == axes

\* Axes.clear() that leaves the units of the x axis as they are
axes_clear_units(axes) == Chart(<< >>, "", << >>, << >>, axes.units)

\* Axes.clear(): the artists, the title, the tick labels and the units of
\* the axes are gone
axes_clear(axes) == Chart(<< >>, "", << >>, << >>, << >>)

\* the x axis meets the category names of data: a name it has not met yet
\* gets the next position
RECURSIVE Update(_, _)
Update(units, data) ==
    IF data = << >> THEN units
    ELSE Update(IF \E j \in 1..Len(units) : units[j] = Head(data)
                THEN units ELSE Append(units, Head(data)),
                Tail(data))

\* the position of a category name on the x axis
Position(units, name) == (CHOOSE j \in 1..Len(units) : units[j] = name) - 1

\* the label the x axis shows at position p: set_xticklabels gives the tick
\* at position p the label of index p of its list, and none beyond the list
TickLabel(axes, p) ==
    IF p + 1 \in DOMAIN axes.xticklabels THEN axes.xticklabels[p + 1] ELSE ""

\* MatplotlibCanvas.clear_plot
clear_plot(axes) ==
    [axes_clear(axes) EXCEPT !.texts = Append(@, "Upload a CSV file to view chart")]

\* MatplotlibCanvas.plot_type_distribution: a bar has its position on the x
\* axis, its height, its colour and the text annotated above it
plot_type_distribution(axes, distribution) ==
    LET cleared == axes_clear(axes)
    IN IF distribution = << >>
       THEN [cleared EXCEPT !.texts = Append(@, "No data to display")]
       ELSE LET types == [i \in 1..Len(distribution) |-> distribution[i].type]
                counts == [i \in 1..Len(distribution) |-> distribution[i].count]
                bar_colors == [i \in 1..Len(types) |-> colors[((i - 1) % Len(colors)) + 1]]
                units == Update(cleared.units, types)
            IN [cleared EXCEPT
                  !.units = units,
                  !.bars = @ \o [i \in 1..Len(types) |->
                               [x |-> Position(units, types[i]), height |-> counts[i],
                                color |-> bar_colors[i], label |-> ToString(counts[i])]],
                  !.title = "Equipment Type Distribution",
                  !.xticklabels = types]

(***************************************************************************)
(* MainWindow                                                              *)
(***************************************************************************)
\* the digits after the second cut off instead of rounded
Format2f_cut(v) ==
    LET a == IF v < 0 THEN 0 - v ELSE v
        c == a \div 10
    IN (IF v < 0 THEN "-" ELSE "") \o ToString(c \div 100) \o "."
       \o (IF c % 100 < 10 THEN "0" ELSE "") \o ToString(c % 100)

\* f"{v:.2f}" for v counted in thousandths (no value here is a tie)
Format2f(v) ==
    LET a == IF v < 0 THEN 0 - v ELSE v
        c == (a + 5) \div 10
    IN (IF v < 0 THEN "-" ELSE "") \o ToString(c \div 100) \o "."
       \o (IF c % 100 < 10 THEN "0" ELSE "") \o ToString(c % 100)

\* the files the user can pick in the file chooser, as path components
FilePaths == { <<"home", "data", "pumps.csv">>, <<"valves.csv">> }

Button(enabled, text) == [enabled |-> enabled, text |-> text]
Label(text, color) == [text |-> text, color |-> color]

\* the upload button while an upload is under way, and otherwise
UploadingButton_enabled == Button(TRUE, "Uploading...")
UploadingButton == Button(FALSE, "Uploading...")
ReadyButton == Button(TRUE, "Select & Upload CSV File")

\* the upload button is clicked: MainWindow.upload_file up to its first
\* modal window
ClickUpload ==
    /\ modal = << >>
    /\ upload_btn.enabled
    /\ modal' = IF ~Truthy(token) THEN <<AuthFrame("upload")>> ELSE ResumeUpload(modal, token)
    /\ UNCHANGED <<token, worker, threads, events, upload_btn, file_label,
                   display, statusBar, login>>

\* the file chooser returns no path
FileCancelled ==
    /\ modal # << >>
    /\ Top.k = "file"
    /\ modal' = Pop(modal)
    /\ UNCHANGED <<token, worker, threads, events, upload_btn, file_label,
                   display, statusBar, login>>

\* the file chooser returns file_path: the rest of MainWindow.upload_file
FileSelected(file_path) ==
    /\ modal # << >>
    /\ Top.k = "file"
    /\ LET left == Collect(threads, 0, events)
       IN /\ Len(left.threads) + 1 \in Slots
          /\ threads' = Append(left.threads, UploadWorker(file_path, token))
          /\ worker' = Len(left.threads) + 1
          /\ events' = left.events
    /\ modal' = Pop(modal)
    /\ file_label' = Label("Selected: " \o Basename(file_path), "#68d391")
    /\ upload_btn' = UploadingButton
    /\ statusBar' = "Uploading file to API..."
    /\ UNCHANGED <<token, display, login>>

\* on_upload_success reading data['summary_statistics']: without that field
\* the slot ends after it has enabled the button
on_upload_success_strict(data) ==
    IF "summary_statistics" \in DOMAIN data
    THEN LET stats == data["summary_statistics"]
             type_distribution == Get(stats, "type_distribution", << >>)
         IN /\ upload_btn' = ReadyButton
            /\ total_label' = ToString(Get(stats, "total_count", 0))
            /\ flowrate_label' = Format2f(Get(stats, "avg_flowrate", 0)) \o " m³/h"
            /\ pressure_label' = Format2f(Get(stats, "avg_pressure", 0)) \o " bar"
            /\ temperature_label' = Format2f(Get(stats, "avg_temperature", 0)) \o " °C"
            /\ canvas' = plot_type_distribution(canvas, type_distribution)
            /\ statusBar' = "Success! Loaded " \o ToString(Get(stats, "total_count", 0))
                              \o " equipment records. File ID: " \o Get(data, "file_id", "N/A")
            /\ file_label' = [file_label EXCEPT !.color = "#68d391"]
            /\ UNCHANGED <<token, modal>>
    ELSE /\ upload_btn' = ReadyButton
         /\ UNCHANGED <<token, modal, display, statusBar, file_label>>

\* on_upload_success that sets a label and the chart only when the answer
\* has their field
on_upload_success_merge(data) ==
    LET stats == Get(data, "summary_statistics", << >>)
    IN /\ upload_btn' = ReadyButton
       /\ total_label' = IF "total_count" \in DOMAIN stats
                         THEN ToString(stats["total_count"]) ELSE total_label
       /\ flowrate_label' = IF "avg_flowrate" \in DOMAIN stats
                            THEN Format2f(stats["avg_flowrate"]) \o " m³/h" ELSE flowrate_label
       /\ pressure_label' = IF "avg_pressure" \in DOMAIN stats
                            THEN Format2f(stats["avg_pressure"]) \o " bar" ELSE pressure_label
       /\ temperature_label' = IF "avg_temperature" \in DOMAIN stats
                               THEN Format2f(stats["avg_temperature"]) \o " °C"
                               ELSE temperature_label
       /\ canvas' = IF "type_distribution" \in DOMAIN stats
                    THEN plot_type_distribution(canvas, stats["type_distribution"])
                    ELSE canvas
       /\ statusBar' = "Success! Loaded " \o ToString(Get(stats, "total_count", 0))
                         \o " equipment records. File ID: " \o Get(data, "file_id", "N/A")
       /\ file_label' = [file_label EXCEPT !.color = "#68d391"]
       /\ UNCHANGED <<token, modal>>

\* MainWindow.on_upload_success
on_upload_success(data) ==
    LET stats == Get(data, "summary_statistics", << >>)
        type_distribution == Get(stats, "type_distribution", << >>)
    IN /\ upload_btn' = ReadyButton
       /\ total_label' = ToString(Get(stats, "total_count", 0))
       /\ flowrate_label' = Format2f(Get(stats, "avg_flowrate", 0)) \o " m³/h"
       /\ pressure_label' = Format2f(Get(stats, "avg_pressure", 0)) \o " bar"
       /\ temperature_label' = Format2f(Get(stats, "avg_temperature", 0)) \o " °C"
       /\ canvas' = plot_type_distribution(canvas, type_distribution)
       /\ statusBar' = "Success! Loaded " \o ToString(Get(stats, "total_count", 0))
                         \o " equipment records. File ID: " \o Get(data, "file_id", "N/A")
       /\ file_label' = [file_label EXCEPT !.color = "#68d391"]
       /\ UNCHANGED <<token, modal>>

\* on_upload_error that also resets the chart
on_upload_error_reset(error_msg) ==
    /\ upload_btn' = ReadyButton
    /\ file_label' = [file_label EXCEPT !.color = "#fc8181"]
    /\ statusBar' = "Error: " \o error_msg.pre \o error_msg.arg
    /\ modal' = Push(modal, Critical("Upload Error", error_msg.pre, error_msg.arg))
    /\ canvas' = clear_plot(canvas)
    /\ UNCHANGED <<token, total_label, flowrate_label, pressure_label, temperature_label>>

\* on_upload_error that leaves the button as it is
on_upload_error_stuck(error_msg) ==
    /\ upload_btn' = upload_btn
    /\ file_label' = [file_label EXCEPT !.color = "#fc8181"]
    /\ statusBar' = "Error: " \o error_msg.pre \o error_msg.arg
    /\ modal' = Push(modal, Critical("Upload Error", error_msg.pre, error_msg.arg))
    /\ UNCHANGED <<token, display>>

\* MainWindow.on_upload_error
on_upload_error(error_msg) ==
    /\ upload_btn' = ReadyButton
    /\ file_label' = [file_label EXCEPT !.color = "#fc8181"]
    /\ statusBar' = "Error: " \o error_msg.pre \o error_msg.arg
    /\ modal' = Push(modal, Critical("Upload Error", error_msg.pre, error_msg.arg))
    /\ UNCHANGED <<token, display>>

\* Deliver with a slot on_upload_error that starts the worker again
Deliver_retry ==
    /\ events # << >>
    /\ LET event == Head(events)
       IN /\ IF event.sig = "finished"
             THEN on_upload_success(event.data)
             ELSE on_upload_error(event.msg)
          /\ LET left == Collect([threads EXCEPT ![event.w] =
                                     IF event.sig = "error"
                                     THEN [@ EXCEPT !.st = "started", !.emitted = << >>]
                                     ELSE [@ EXCEPT !.observed = Append(@, event.sig)]],
                                  worker, Tail(events))
             IN /\ threads' = left.threads
                /\ worker' = left.worker
                /\ events' = left.events
    /\ UNCHANGED login

\* the main thread takes the oldest queued signal and calls its slot
Deliver ==
    /\ events # << >>
    /\ LET event == Head(events)
       IN /\ IF event.sig = "finished"
             THEN on_upload_success(event.data)
             ELSE on_upload_error(event.msg)
          /\ LET left == Collect([threads EXCEPT ![event.w].observed = Append(@, event.sig)],
                                  worker, Tail(events))
             IN /\ threads' = left.threads
                /\ worker' = left.worker
                /\ events' = left.events
    /\ UNCHANGED login

\* the OperationState of the controller, as the widgets show it: the button
\* is disabled from the start of an upload to its outcome, the file label is
\* grey until the first upload, red after a failure and green otherwise
OperationState ==
    IF ~upload_btn.enabled THEN "Uploading"
    ELSE IF file_label.color = "#fc8181" THEN "Failed"
    ELSE IF file_label.color = "#68d391" THEN "Succeeded"
    ELSE "Idle"

\* an upload is in flight from the start of its worker until a slot of the
\* main window has taken its outcome
InFlight(w) == w \in DOMAIN threads /\ (threads[w].st = "started" \/ Pending(events, w))

\* a step in which the main thread delivers a queued signal of the given name
Delivers(sig) ==
    /\ events # << >>
    /\ Head(events).sig = sig
    /\ Len(events') = Len(events) - 1

(***************************************************************************)
(* The program: MainWindow.__init__ has set token and worker to None, has  *)
(* built the widgets and is in show_auth_dialog, the dialog being open.    *)
(***************************************************************************)
Init ==
    /\ token = None
    /\ worker = 0
    /\ threads = << >>
    /\ events = << >>
    /\ modal = <<AuthFrame("init")>>
    /\ upload_btn = ReadyButton
    /\ file_label = Label("No file selected", "#718096")
    /\ total_label = "-"
    /\ flowrate_label = "-"
    /\ pressure_label = "-"
    /\ temperature_label = "-"
    /\ canvas = clear_plot(NewAxes)
    /\ statusBar = "Ready - Please upload a CSV file"
    /\ login = NoLogin

\* the user's and the server's part in a login: all of them, and a few of
\* them, one for each way a login can end
LoginInput(username, password, reply) ==
    [username |-> username, password |-> password, reply |-> reply]
LoginInputs ==
    { LoginInput(username, password, reply) :
         username \in CredTexts, password \in CredTexts, reply \in LoginReplies }
FewLoginInputs ==
    { LoginInput(<<"a">>, << >>, Raised("ConnectionError")),
      LoginInput(<<"a">>, <<"a">>, Response(400, TextBody)) }
    \cup { LoginInput(<<"a">>, <<"a">>, Response(200, DictBody("{token}", [token |-> Str(t)]))) :
              t \in Tokens }

\* the whole program, with a few logins and every run
Next ==
    \/ \E in \in FewLoginInputs : HandleLogin(in.username, in.password, in.reply)
    \/ RejectLogin
    \/ CloseMessage
    \/ ChangeCredentials
    \/ ClickUpload
    \/ FileCancelled
    \/ \E file_path \in FilePaths : FileSelected(file_path)
    \/ \E w \in Slots, io \in RunInputs : WorkerRun(w, io)
    \/ \E w \in Slots : WorkerExit(w)
    \/ Deliver

Spec == Init /\ [][Next]_vars

\* a few of the runs, one for each way through UploadWorker.run
FewRunInputs ==
    { RunInput(FALSE, Raised("none")),
      RunInput(TRUE, Response(201, DictBody("{B}", DataB))),
      RunInput(TRUE, Response(201, ListBody)),
      RunInput(TRUE, Response(201, TextBody)),
      RunInput(TRUE, Response(401, TextBody)),
      RunInput(TRUE, Response(500, TextBody)),
      RunInput(TRUE, Response(500, ListBody)),
      RunInput(TRUE, Response(500, DictBody("{}", Only(DataB, {})))),
      RunInput(TRUE, Response(500, DictBody("{error: str}", [error |-> Str("Invalid file format")]))),
      RunInput(TRUE, Response(500, DictBody("{error: dict}",
                                   [error |-> Obj("{'file': ['No file was submitted.']}")]))) }
    \cup { RunInput(TRUE, Raised(exc)) :
              exc \in {"ConnectionError", "ConnectTimeout", "ReadTimeout",
                       "ChunkedEncodingError"} }

NextLive ==
    \/ \E in \in FewLoginInputs : HandleLogin(in.username, in.password, in.reply)
    \/ RejectLogin
    \/ CloseMessage
    \/ ChangeCredentials
    \/ ClickUpload
    \/ FileCancelled
    \/ \E file_path \in FilePaths : FileSelected(file_path)
    \/ \E w \in Slots, io \in FewRunInputs : WorkerRun(w, io)
    \/ \E w \in Slots : WorkerExit(w)
    \/ Deliver

\* the whole program with its scheduling: a thread that was started runs
\* and gets to the end of run (requests.post returns or raises, at the
\* latest when its timeout expires), and the event loop of the main thread,
\* also the one of an open modal window, delivers the signals in its queue
SpecLive ==
    /\ Init /\ [][NextLive]_vars
    /\ WF_vars(\E w \in Slots, io \in FewRunInputs : WorkerRun(w, io))
    /\ WF_vars(Deliver)

\* the authentication, with every login and no upload
NextAuth ==
    \/ \E in \in LoginInputs : HandleLogin(in.username, in.password, in.reply)
    \/ RejectLogin
    \/ CloseMessage
    \/ ChangeCredentials
    \/ ClickUpload
    \/ FileCancelled

SpecAuth == Init /\ [][NextAuth]_vars

\* the names of the fields of an answer 201 and of its summary_statistics
DataKeys == {"file_id", "summary_statistics"}
StatKeys == {"total_count", "avg_flowrate", "avg_pressure", "avg_temperature",
             "type_distribution"}

\* the answer B, and the answer C with every set of its fields left out
ParseBodies ==
    { DataB }
    \cup { Only([DataC EXCEPT !.summary_statistics = Only(@, stat_keys)], data_keys) :
              stat_keys \in SUBSET StatKeys, data_keys \in SUBSET DataKeys }
ParseInputs ==
    { RunInput(TRUE, Response(201, DictBody("{...}", data))) : data \in ParseBodies }
    \cup { RunInput(TRUE, Response(401, TextBody)) }

\* uploads one after another with one token, each answered 201 with an
\* answer of ParseBodies, or 401
NextParse ==
    \/ HandleLogin(<<"a">>, <<"a">>, Response(200, DictBody("{token}", [token |-> Str("abc123")])))
    \/ ClickUpload
    \/ FileCancelled
    \/ FileSelected(<<"valves.csv">>)
    \/ CloseMessage
    \/ \E w \in Slots, io \in ParseInputs : WorkerRun(w, io)
    \/ \E w \in Slots : WorkerExit(w)
    \/ Deliver

SpecParse == Init /\ [][NextParse]_vars

\* the type distributions given to the canvas by itself: the sequences of
\* up to MaxBars entries, type names occurring more than once among them
Entries ==
    { [type |-> "Pump", count |-> 1], [type |-> "Pump", count |-> 12],
      [type |-> "Valve", count |-> 1] }
Distributions == UNION { [1..n -> Entries] : n \in 0..MaxBars }

\* a call of plot_type_distribution on the canvas as the calls before left it
Render(distribution) ==
    /\ canvas' = plot_type_distribution(canvas, distribution)
    /\ UNCHANGED <<token, worker, threads, events, modal, upload_btn, file_label,
                   total_label, flowrate_label, pressure_label, temperature_label,
                   statusBar, login>>

NextRender == \E distribution \in Distributions : Render(distribution)

\* the canvas, drawn on again and again
SpecRender == Init /\ [][NextRender]_vars

(***************************************************************************)
(* The claims                                                              *)
(***************************************************************************)
\* C1: at most one upload is in flight in every reachable state, and while
\* the state is Uploading no call of upload_file is under way (no window
\* opened by upload_file is open): a click in that state is ignored and
\* starts no second worker.
C1_AtMostOneInFlight ==
    /\ Cardinality({ w \in DOMAIN threads : InFlight(w) }) <= 1
    /\ \A w \in DOMAIN threads : InFlight(w) => w = worker /\ OperationState = "Uploading"
    /\ OperationState = "Uploading" =>
          /\ InFlight(worker)
          /\ \A i \in 1..Len(modal) : modal[i].ctx # "upload"

\* a second upload is in flight and nothing stands between the user and the
\* upload button, the thread of the upload before not having ended yet
C1_Witness ==
    /\ modal = << >>
    /\ OperationState = "Uploading"
    /\ InFlight(worker)
    /\ \E w \in DOMAIN threads : w # worker /\ threads[w].st = "detached"

\* C2: every worker whose run has got to its end has emitted exactly one
\* signal, finished or error, on every path through run; that signal is
\* queued exactly once until a slot of the main window has taken it, and
\* then the main window has observed that one signal, once.
C2_ExactlyOneOutcome ==
    \A w \in DOMAIN threads :
        LET self == threads[w]
            queued == { i \in 1..Len(events) : events[i].w = w }
        IN /\ self.st \in {"started", "detached"} =>
                self.emitted = << >> /\ self.observed = << >> /\ queued = {}
           /\ self.st \in {"emitted", "finished"} =>
                /\ Len(self.emitted) = 1
                /\ self.emitted[1] \in {"finished", "error"}
                /\ IF queued # {}
                   THEN /\ Cardinality(queued) = 1
                        /\ self.observed = << >>
                        /\ \A i \in queued : events[i].sig = self.emitted[1]
                   ELSE self.observed = self.emitted

\* the main window has taken the one error signal of a run that got answer
\* 201 with a body that is no JSON object
C2_Witness ==
    \E w \in DOMAIN threads :
        /\ threads[w].st = "emitted"
        /\ threads[w].io.reply.status = 201
        /\ threads[w].io.reply.body.kind = "list"
        /\ threads[w].observed = <<"error">>

\* C3: for every response a run gets, the status code decides the outcome,
\* whatever the body: 201 gives the signal finished with the parsed body,
\* 401 the error "Authentication failed...", every other status the error
\* "API Error: " with the body's error field when it has one.
C3_StatusDecidesOutcome ==
    \A w \in DOMAIN threads :
        LET self == threads[w]
            reply == self.io.reply
        IN (self.st = "emitted" /\ self.io.file_ok /\ reply.exc = "none") =>
              /\ Len(self.signals) = 1
              /\ IF reply.status = 201
                 THEN /\ self.signals[1].sig = "finished"
                      /\ reply.body.kind = "dict" => self.signals[1].data = reply.body.value
                 ELSE IF reply.status = 401
                 THEN self.signals[1] =
                          Error("Authentication failed. Please check your credentials.", "")
                 ELSE /\ self.signals[1].sig = "error"
                      /\ self.signals[1].msg.pre = "API Error: "
                      /\ (reply.body.kind = "dict" /\ "error" \in DOMAIN reply.body.value) =>
                            self.signals[1].msg.arg = reply.body.value["error"].v

\* C4: when requests.post raises, the kind of the exception decides the
\* failure: a timeout, while connecting or while waiting for the answer,
\* gives "Request timed out...", a connection failure gives "Connection
\* failed...", every other exception gives "Error: " with its detail.
C4_ExceptionDecidesFailure ==
    \A w \in DOMAIN threads :
        LET self == threads[w]
            exc == self.io.reply.exc
        IN (self.st = "emitted" /\ self.io.file_ok /\ exc # "none") =>
              self.signals =
                 << IF exc \in {"ConnectTimeout", "ReadTimeout"}
                    THEN Error("Request timed out. Please try again.", "")
                    ELSE IF exc = "ConnectionError"
                    THEN Error("Connection failed. Is the Django server running?", "")
                    ELSE Error("Error: ", exc) >>

\* C5: the step that starts an upload and the step in which the main window
\* takes an error signal leave the four statistics and the chart as they
\* were; after the latter the state is Failed, the button is enabled again,
\* and the message is in the status bar and in a message box.
C5_FailureKeepsStatistics ==
    [][ /\ OperationState' = "Uploading" => UNCHANGED display
        /\ Delivers("error") =>
              /\ UNCHANGED display
              /\ OperationState' = "Failed"
              /\ upload_btn' = ReadyButton
              /\ statusBar' = "Error: " \o Head(events).msg.pre \o Head(events).msg.arg
              /\ modal' = Push(modal, Critical("Upload Error", Head(events).msg.pre,
                                               Head(events).msg.arg))
      ]_vars

\* an upload has failed with 401 while the statistics and the chart of an
\* upload before are on display
C5_Witness ==
    /\ OperationState = "Failed"
    /\ modal # << >>
    /\ Top.pre = "Authentication failed. Please check your credentials."
    /\ total_label = "3"
    /\ flowrate_label = "12.50 m³/h"
    /\ Len(canvas.bars) = 2

\* the texts the window shows for the answers B and C
ShownB == <<"3", "12.50 m³/h", "1.20 bar", "25.00 °C">>
ShownC == <<"2", "1.23 m³/h", "1.24 bar", "-5.00 °C">>

\* C6: in the step in which the main window takes a finished signal the
\* state becomes Succeeded, the total shown is the total_count of the answer,
\* the averages shown are its averages with two decimals and their units,
\* and the chart has one bar for each entry of its type_distribution, in
\* that order, as high as the entry's count.
C6_SuccessShowsResponse ==
    [][ Delivers("finished") =>
          LET data == Head(events).data
              stats == Get(data, "summary_statistics", << >>)
              shown == <<total_label', flowrate_label', pressure_label', temperature_label'>>
          IN /\ OperationState' = "Succeeded"
             /\ data = DataB => shown = ShownB
             /\ data = DataC => shown = ShownC
             /\ "total_count" \in DOMAIN stats => total_label' = ToString(stats.total_count)
             /\ "type_distribution" \in DOMAIN stats =>
                   /\ Len(canvas'.bars) = Len(stats.type_distribution)
                   /\ \A i \in 1..Len(stats.type_distribution) :
                         /\ canvas'.bars[i].height = stats.type_distribution[i].count
                         /\ canvas'.xticklabels[i] = stats.type_distribution[i].type
      ]_vars

\* the answer of Scenario B is on display
C6_Witness ==
    /\ OperationState = "Succeeded"
    /\ <<total_label, flowrate_label, pressure_label, temperature_label>> = ShownB
    /\ Len(canvas.bars) = 2
    /\ statusBar = "Success! Loaded 3 equipment records. File ID: f1"

\* C7: without a token nothing of an upload exists: the state is Idle, there
\* is no worker, no queued signal and no file chooser, so an upload that
\* found no token and whose dialog was cancelled or failed stopped there;
\* and every worker was made with a token that is not empty.
C7_NoUploadWithoutToken ==
    /\ ~Truthy(token) =>
          /\ OperationState = "Idle"
          /\ upload_btn = ReadyButton
          /\ worker = 0
          /\ threads = << >>
          /\ events = << >>
          /\ \A i \in 1..Len(modal) : modal[i].k # "file"
    /\ \A w \in DOMAIN threads : threads[w].st \in {"started", "emitted", "finished"} =>
          /\ Truthy(threads[w].token)
          /\ threads[w].st = "emitted" /\ threads[w].request.sent =>
                threads[w].request.authorization # "Token "

\* the upload button was clicked without a token and the login in the dialog
\* it opened has failed
C7_Witness ==
    /\ ~Truthy(token)
    /\ Len(modal) = 2
    /\ modal[1] = AuthFrame("upload")
    /\ modal[2].k = "msg"
    /\ login.called

\* C8: a call of authenticate with a username or a password that is empty
\* or all blanks posts nothing to the login endpoint and ends with the
\* warning "Please enter username and password".
C8_BlankInputIsMissingInput ==
    (login.called /\ (Blank(login.username) \/ Blank(login.password))) =>
        /\ ~login.result.sent
        /\ login.result.ret = None
        /\ login.result.box = Warning("Error", "Please enter username and password", "")

\* the failures of a login: wrong credentials, and a server error with its
\* detail
InvalidCredentials(result) ==
    /\ result.ret = None
    /\ result.box = Warning("Login Failed", "Invalid credentials", "")
ServerError(result, reply) ==
    /\ result.ret = None
    /\ \/ reply.exc = "none" /\ result.box = Warning("Login Failed", "Error: ", reply.body.text)
       \/ reply.exc # "none" /\
            result.box = Critical("Connection Error", "Could not connect to server: ", reply.exc)
HasToken(reply) ==
    reply.exc = "none" /\ reply.body.kind = "dict" /\ "token" \in DOMAIN reply.body.value

\* C9 as claimed: the class of the status decides the result of
\* authenticate: 2xx with a token field gives the token, 4xx gives invalid
\* credentials, every other status and every transport fault a server error.
C9_StatusClassDecidesLogin ==
    (login.called /\ login.result.sent) =>
        LET reply == login.reply
            result == login.result
        IN IF reply.exc = "none" /\ reply.status \div 100 = 2
           THEN HasToken(reply) => result.ret = reply.body.value["token"]
           ELSE IF reply.exc = "none" /\ reply.status \div 100 = 4
           THEN InvalidCredentials(result)
           ELSE ServerError(result, reply)

\* C9 as amended: the status decides the result of authenticate: 200 with a
\* JSON object that has a token field gives that token and no message, 400
\* gives invalid credentials, every status other than 200 and 400 and every
\* transport fault gives a server error with its detail.
C9_StatusDecidesLogin ==
    (login.called /\ login.result.sent) =>
        LET reply == login.reply
            result == login.result
        IN IF reply.exc = "none" /\ reply.status = 200
           THEN HasToken(reply) =>
                   result.ret = reply.body.value["token"] /\ result.box = NoBox
           ELSE IF reply.exc = "none" /\ reply.status = 400
           THEN InvalidCredentials(result)
           ELSE ServerError(result, reply)

\* authenticate has got the answer 401 and has reported a server error, and
\* the dialog is still open under the message
C9_Witness ==
    /\ login.called
    /\ login.reply.status = 401
    /\ ServerError(login.result, login.reply)
    /\ Len(modal) = 2
    /\ modal[1].k = "auth"
    /\ Top = login.result.box

\* C10: the token of the main window changes only in a step of a dialog in
\* which a login succeeds, and then to the token of the server's answer; a
\* failed login, a cancelled dialog and the outcome of an upload leave it as
\* it is; a token once held is never replaced by None or an empty value.
C10_TokenIsLastLogin ==
    [][ /\ token' # token =>
              /\ modal # << >>
              /\ Top.k = "auth"
              /\ login'.called
              /\ login'.reply.status = 200
              /\ HasToken(login'.reply)
              /\ token' = login'.reply.body.value["token"]
        /\ (modal # << >> /\ Top.k = "auth" /\ login' # login /\ Truthy(login'.result.ret)) =>
              token' = login'.result.ret
        /\ Truthy(token) => Truthy(token')
        /\ token' = None \/ Truthy(token')
        /\ (Delivers("error") \/ Delivers("finished")) => token' = token
      ]_vars

\* a worker made with the token of a first login has been answered 401 and
\* the main window has taken its outcome, while the token held is that of a
\* second login
C10_Witness ==
    /\ token = Str("xyz789")
    /\ worker \in DOMAIN threads
    /\ threads[worker].token = Str("abc123")
    /\ threads[worker].st = "emitted"
    /\ threads[worker].io.reply.status = 401
    /\ threads[worker].observed = <<"error">>

\* a step in which upload_file, a file chosen, makes and starts its worker
StartsUpload ==
    /\ modal # << >>
    /\ Top.k = "file"
    /\ ~upload_btn'.enabled

\* C11: a worker is made with the token the main window holds and the path
\* the user chose at that moment; a login that replaces the token of the
\* main window leaves every worker as it is; and the request a run sends has
\* the file name and the token its worker was made with, whatever the token
\* of the main window is by then.
C11_RequestCarriesCapturedValues ==
    [][ /\ StartsUpload =>
              /\ worker' \in DOMAIN threads'
              /\ threads'[worker'].token = token
              /\ threads'[worker'].file_path \in FilePaths
              /\ file_label'.text = "Selected: " \o Basename(threads'[worker'].file_path)
        /\ token' # token => threads' = threads
        /\ \A w \in DOMAIN threads :
              (threads[w].st = "started" /\ w \in DOMAIN threads'
                 /\ threads'[w].st = "emitted") =>
                 /\ threads'[w].token = threads[w].token
                 /\ threads'[w].file_path = threads[w].file_path
                 /\ threads'[w].request.sent =>
                       /\ threads'[w].request.filename = Basename(threads[w].file_path)
                       /\ threads'[w].request.authorization
                             = "Token " \o threads[w].token.v
      ]_vars

\* a run has sent its request with the token of the first login while the
\* main window holds the token of a second one, the outcome of the run not
\* taken yet
C11_Witness ==
    /\ token = Str("xyz789")
    /\ login.result.ret = Str("xyz789")
    /\ worker \in DOMAIN threads
    /\ threads[worker].st = "emitted"
    /\ threads[worker].request.sent
    /\ threads[worker].request.authorization = "Token abc123"
    /\ threads[worker].request.filename = "pumps.csv"
    /\ Pending(events, worker)

\* the fixed parts of the messages of the runs that could open their file
OtherFailures ==
    UNION { { run(TRUE, reply)[i].msg.pre : i \in DOMAIN run(TRUE, reply) } :
               reply \in UploadReplies }

\* C12: a run that cannot open its file sends no request and emits one
\* error whose kind is its own: its message is of none of the kinds a run
\* that could open its file ends with (connection failure, timeout, API
\* error, authentication failure, unexpected exception).
C12_OpenFailureIsLocalIO ==
    \A w \in DOMAIN threads :
        LET self == threads[w]
        IN (self.st = "emitted" /\ ~self.io.file_ok) =>
              /\ ~self.request.sent
              /\ Len(self.signals) = 1
              /\ self.signals[1].sig = "error"
              /\ self.signals[1].msg.pre \notin OtherFailures

\* C13: no attempt fails without a message: a call of authenticate that
\* gives the dialog no token has shown a message box, whatever the answer
\* was (also 200 with a body without a token); and every error a run emits
\* has a message, which the main window shows when it takes the signal.
C13_EveryFailureShowsMessage ==
    /\ (login.called /\ ~Truthy(login.result.ret)) =>
          /\ login.result.box # NoBox
          /\ login.result.box.pre # ""
    /\ \A w \in DOMAIN threads :
          (threads[w].st = "emitted" /\ threads[w].emitted = <<"error">>) =>
             threads[w].signals[1].msg.pre # ""
    /\ \A i \in 1..Len(events) : events[i].sig = "error" => events[i].msg.pre # ""

\* the number of workers whose run has not got to its request yet
Unsent(ths) == Cardinality({ w \in DOMAIN ths : ths[w].st = "started" })

\* the number of workers in ths that have sent their request
Sent(ths) == Cardinality({ w \in DOMAIN ths : ths[w].request.sent })

\* C14: nothing is tried again by the program itself.  A worker is started
\* only in a step of upload_file in which the user has chosen a file, and
\* then one worker; a request is sent only by a worker started and not run
\* yet, one request, after which that worker is never run again; the step
\* in which the main window takes an error starts no worker and queues no
\* signal; and a login request is sent only in a step of the dialog's OK
\* button, one request for a step.
C14_NoAutomaticRetry ==
    [][ /\ Unsent(threads') > Unsent(threads) =>
              /\ StartsUpload
              /\ Unsent(threads) = 0
              /\ Unsent(threads') = 1
        /\ Sent(threads') > Sent(threads) =>
              /\ Sent(threads') = Sent(threads) + 1
              /\ Unsent(threads') = Unsent(threads) - 1
        /\ Delivers("error") =>
              /\ Unsent(threads') = 0
              /\ Sent(threads') <= Sent(threads)
              /\ \A w \in DOMAIN threads' : threads'[w].st # "started"
        /\ login' # login =>
              /\ modal # << >>
              /\ Top.k = "auth"
              /\ login'.called
      ]_vars

\* an upload answered 500 has failed, its message is closed, and nothing is
\* under way: no worker waits to run and no signal is queued
C14_Witness ==
    /\ OperationState = "Failed"
    /\ modal = << >>
    /\ events = << >>
    /\ worker \in DOMAIN threads
    /\ threads[worker].st = "emitted"
    /\ threads[worker].io.reply.status = 500
    /\ threads[worker].request.sent
    /\ threads[worker].observed = <<"error">>
    /\ Unsent(threads) = 0

\* the chart of an empty distribution
Placeholder(chart) ==
    /\ chart.texts = <<"No data to display">>
    /\ chart.bars = << >>
    /\ chart.title = ""
    /\ chart.xticklabels = << >>

\* C15: the step in which the main window takes a finished signal ends in
\* Succeeded with the button enabled, whichever fields the answer lacks: a
\* numeric field that is missing is shown as 0 (the total as "0", an average
\* as "0.00" with its unit), a missing type_distribution gives the chart of
\* the empty distribution, a missing file_id is named N/A, and without
\* summary_statistics all of its fields count as missing.
C15_MissingFieldsDefault ==
    [][ Delivers("finished") =>
          LET data == Head(events).data
              stats == IF "summary_statistics" \in DOMAIN data
                       THEN data["summary_statistics"] ELSE << >>
              Missing(key) == key \notin DOMAIN stats
          IN /\ OperationState' = "Succeeded"
             /\ upload_btn' = ReadyButton
             /\ Missing("total_count") => total_label' = "0"
             /\ Missing("avg_flowrate") => flowrate_label' = "0.00 m³/h"
             /\ Missing("avg_pressure") => pressure_label' = "0.00 bar"
             /\ Missing("avg_temperature") => temperature_label' = "0.00 °C"
             /\ Missing("type_distribution") => Placeholder(canvas')
             /\ "file_id" \notin DOMAIN data =>
                   statusBar' = "Success! Loaded " \o total_label'
                                  \o " equipment records. File ID: N/A"
      ]_vars

\* an answer with avg_flowrate alone in its summary_statistics is on display
C15_Witness ==
    /\ OperationState = "Succeeded"
    /\ upload_btn = ReadyButton
    /\ total_label = "0"
    /\ flowrate_label = "1.23 m³/h"
    /\ pressure_label = "0.00 bar"
    /\ temperature_label = "0.00 °C"
    /\ Placeholder(canvas)
    /\ statusBar = "Success! Loaded 0 equipment records. File ID: N/A"

\* what the window is to show for an answer alone, nothing shown before
\* taken into account: the texts of the four labels and the chart
Superseding(data) ==
    LET stats == IF "summary_statistics" \in DOMAIN data
                 THEN data["summary_statistics"] ELSE << >>
        shown == IF data = DataB THEN ShownB ELSE ShownC
        defaults == <<"0", "0.00 m³/h", "0.00 bar", "0.00 °C">>
        keys == <<"total_count", "avg_flowrate", "avg_pressure", "avg_temperature">>
    IN << [i \in 1..4 |-> IF keys[i] \in DOMAIN stats THEN shown[i] ELSE defaults[i]],
          plot_type_distribution(NewAxes,
              IF "type_distribution" \in DOMAIN stats
              THEN stats["type_distribution"] ELSE << >>) >>

\* C16: the four statistics and the chart change only in a step in which
\* the main window takes a finished signal, and after that step all of them
\* are those of that answer alone: a field the answer lacks shows its
\* default, not what was shown before, and the chart is the chart of the
\* answer's distribution on a canvas never drawn on, no bar kept.
C16_SuccessSupersedes ==
    [][ /\ display' # display => Delivers("finished")
        /\ Delivers("finished") =>
              /\ <<total_label', flowrate_label', pressure_label', temperature_label'>>
                    = Superseding(Head(events).data)[1]
              /\ canvas' = Superseding(Head(events).data)[2]
      ]_vars

\* after an upload before it, an upload whose answer has total_count and
\* type_distribution only is on display
C16_Witness ==
    /\ OperationState = "Succeeded"
    /\ \E w \in DOMAIN threads : w # worker /\ threads[w].st = "detached"
    /\ worker \in DOMAIN threads
    /\ threads[worker].observed = <<"finished">>
    /\ <<total_label, flowrate_label, pressure_label, temperature_label>>
          = <<"2", "0.00 m³/h", "0.00 bar", "0.00 °C">>
    /\ Len(canvas.bars) = 2
    /\ canvas.units = <<"Pump">>

\* C17: plot_type_distribution of n >= 1 entries gives n bars, one for each
\* entry, whatever was drawn before: bar i is as high as the count of entry
\* i and has that count written above it; and on the canvas a call has drawn
\* on, the bars stand from left to right in the order of the entries (also
\* when a type name occurs twice), the x axis naming under bar i the type of
\* entry i (xticklabels has the types of the entries as they were given).
C17_OneBarForEachEntry ==
    /\ \A d \in Distributions \ { << >> } :
          LET chart == plot_type_distribution(canvas, d)
          IN /\ Len(chart.bars) = Len(d)
             /\ \A i \in 1..Len(d) :
                   /\ chart.bars[i].height = d[i].count
                   /\ chart.bars[i].label = ToString(d[i].count)
    /\ Len(canvas.bars) = Len(canvas.xticklabels)
    /\ \A i \in 1..Len(canvas.bars) :
          TickLabel(canvas, canvas.bars[i].x) = canvas.xticklabels[i]
    /\ \A i, j \in 1..Len(canvas.bars) : i < j => canvas.bars[i].x < canvas.bars[j].x

\* C18: whatever was drawn before, plot_type_distribution of the empty
\* distribution leaves the placeholder text alone in the axes: no bar, no
\* title and no tick label of an earlier chart is left.
C18_EmptyGivesPlaceholder ==
    Placeholder(plot_type_distribution(canvas, << >>))

\* three bars are on the canvas, and the chart of the empty distribution
\* drawn over them is the placeholder
C18_Witness ==
    /\ Len(canvas.bars) = 3
    /\ canvas.title = "Equipment Type Distribution"
    /\ plot_type_distribution(canvas, << >>).bars = << >>
    /\ plot_type_distribution(canvas, << >>).texts = <<"No data to display">>

C20_ButtonDisabledWhileUploading ==
    /\ [](upload_btn.enabled <=> ~(\E w \in DOMAIN threads : InFlight(w)))
    /\ [](~upload_btn.enabled => upload_btn = UploadingButton /\ InFlight(worker))
    /\ (OperationState = "Uploading")
          ~> (/\ OperationState \in {"Succeeded", "Failed"}
              /\ upload_btn = ReadyButton
              /\ ~(\E w \in DOMAIN threads : InFlight(w)))

\* the outcome of an upload whose request timed out has been taken while
\* the dialog of "Change Credentials" was open: the button is enabled again
C20_Witness ==
    /\ upload_btn = ReadyButton
    /\ OperationState = "Failed"
    /\ worker \in DOMAIN threads
    /\ threads[worker].io.reply.exc = "ReadTimeout"
    /\ threads[worker].observed = <<"error">>
    /\ Len(modal) = 2
    /\ modal[1] = AuthFrame("change")
    /\ modal[2].pre = "Request timed out. Please try again."

\* the workers whose thread has not ended: run has not returned yet
Running(ths) == { w \in DOMAIN ths : ths[w].st # "finished" }

\* C21: in the step in which upload_file puts a new worker in the place of
\* the one before, the thread of every worker before has ended (run has
\* returned, not only emitted its signal), and so in no state are there two
\* workers whose thread has not ended.
C21_WorkerReplacedAfterExit ==
    [][ /\ StartsUpload => Running(threads) = {}
        /\ Cardinality(Running(threads')) <= 1
      ]_vars

====
